---- MODULE Spec2Model ----
(***************************************************************************)
(* Model of backend/server.py (RAFit): a FastAPI application over two      *)
(* MongoDB collections, users and meals.                                   *)
(*                                                                         *)
(* Numbers.  The program computes in binary floating point.  The model     *)
(* keeps every quantity as an integer count of a fixed unit:               *)
(*   - weight (kg), height (cm), age, portion_size (g): whole units;       *)
(*   - calories, protein, carbs, fats of a meal: tenths;                   *)
(*   - BMR: thousandths of a kcal; TDEE and the goal: 1/40000 kcal (the    *)
(*     activity multipliers are whole multiples of 1/40).                  *)
(* round(x, n) is modelled on the exact quotient.  Where the exact value   *)
(* lies halfway between two neighbours the float the program holds may lie *)
(* on either side of it, so both neighbours are possible outcomes.         *)
(*                                                                         *)
(* Pass-through fields that no handler reads (name, time, image_base64,    *)
(* created_at, food_name of a stored meal) are left out of the documents.  *)
(***************************************************************************)
EXTENDS Integers, Sequences, FiniteSets, TLC

VARIABLES users, meals, adj, last

vars == <<users, meals, adj, last>>

(***************************************************************************)
(* Bounds of the model.                                                    *)
(***************************************************************************)
MaxMeals == 2
MaxAdjusts == 2
MaxItems == 3

(***************************************************************************)
(* Generic helpers.                                                        *)
(***************************************************************************)
Abs(x) == IF x < 0 THEN -x ELSE x

\* All q with |num/den - q| <= 1/2 (den # 0): round to the nearest integer,
\* both neighbours at an exact tie.
RoundDiv(num, den) ==
    LET n == IF den < 0 THEN -num ELSE num
        d == Abs(den)
        f == n \div d
    IN  { q \in {f, f + 1} : 2 * Abs(n - q * d) <= d }

\* dict.update / Mongo $set: the fields of upd overwrite those of doc.
SetFields(doc, upd) ==
    [k \in (DOMAIN doc) \cup (DOMAIN upd) |->
        IF k \in DOMAIN upd THEN upd[k] ELSE doc[k]]

RECURSIVE SumSeq(_)
SumSeq(s) == IF s = <<>> THEN 0 ELSE Head(s) + SumSeq(Tail(s))

\* The Python value None where a document is expected.
NoneDoc == [none |-> TRUE]

(***************************************************************************)
(* The document store: a collection is the sequence of its documents in    *)
(* natural (insertion) order.                                              *)
(***************************************************************************)
Matches(doc, filter) == \A k \in DOMAIN filter : doc[k] = filter[k]

\* Index of the first document matching the filter, 0 when there is none.
FindIdx(coll, filter) ==
    IF \E i \in DOMAIN coll : Matches(coll[i], filter)
    THEN CHOOSE i \in DOMAIN coll :
            /\ Matches(coll[i], filter)
            /\ \A j \in DOMAIN coll : Matches(coll[j], filter) => i <= j
    ELSE 0

FindOne(coll, filter) ==
    IF FindIdx(coll, filter) = 0 THEN NoneDoc ELSE coll[FindIdx(coll, filter)]

\* find(filter).to_list(): every matching document, in natural order.
Find(coll, filter) == SelectSeq(coll, LAMBDA d : Matches(d, filter))

InsertOne(coll, doc) == Append(coll, doc)

\* update_one(filter, {"$set": upd}) without upsert: the first match is
\* updated; no match changes nothing and raises nothing.
UpdateOne(coll, filter, upd) ==
    LET i == FindIdx(coll, filter)
    IN  IF i = 0 THEN coll ELSE [coll EXCEPT ![i] = SetFields(coll[i], upd)]

\* update_one(..., upsert=True): no match inserts filter + $set fields.
UpsertOne(coll, filter, upd) ==
    IF FindIdx(coll, filter) = 0
    THEN Append(coll, SetFields(filter, upd))
    ELSE UpdateOne(coll, filter, upd)

\* delete_one: the first match is removed.
DeleteOne(coll, filter) ==
    LET i == FindIdx(coll, filter)
    IN  IF i = 0 THEN coll
        ELSE [j \in 1..(Len(coll) - 1) |-> IF j < i THEN coll[j] ELSE coll[j + 1]]

DeletedCount(coll, filter) == IF FindIdx(coll, filter) = 0 THEN 0 ELSE 1

(***************************************************************************)
(* Metabolic calculator.                                                   *)
(***************************************************************************)
\* str.lower() on the strings the model draws.
Lower(s) ==
    CASE s = "Masculino" -> "masculino"
      [] s = "MUITO_INTENSO" -> "muito_intenso"
      [] s = "Leve" -> "leve"
      [] OTHER -> s

\* Thousandths of a kcal.
calculate_bmr(weight, height, age, gender) ==
    IF Lower(gender) = "masculino"
    THEN 88362 + (13397 * weight) + (4799 * height) - (5677 * age)
    ELSE 447593 + (9247 * weight) + (3098 * height) - (4330 * age)

\* activity_multipliers.get(activity_level.lower(), 1.2), in fortieths:
\* 1.2, 1.375, 1.55, 1.725, 1.9.
ActivityMultiplier(activity_level) ==
    LET a == Lower(activity_level)
    IN  CASE a = "sedentario" -> 48
          [] a = "leve" -> 55
          [] a = "moderado" -> 62
          [] a = "intenso" -> 69
          [] a = "muito_intenso" -> 76
          [] OTHER -> 48

\* In 1/40000 kcal.
calculate_tdee(bmr, activity_level) == bmr * ActivityMultiplier(activity_level)

\* One kcal in the unit of TDEE.
Kcal == 40 * 1000

calculate_daily_calorie_goal(tdee, current_weight, goal_weight) ==
    IF goal_weight < current_weight THEN tdee - 500 * Kcal
    ELSE IF goal_weight > current_weight THEN tdee + 300 * Kcal
    ELSE tdee

\* The possible values of round(daily_goal, 0) for a request body.
DailyGoals(profile) ==
    LET bmr == calculate_bmr(profile.weight, profile.height, profile.age,
                             profile.gender)
        tdee == calculate_tdee(bmr, profile.activity_level)
        daily_goal == calculate_daily_calorie_goal(tdee, profile.weight,
                                                   profile.goal_weight)
    IN  RoundDiv(daily_goal, Kcal)

\* Faulty variant of ProfileDict: a goal supplied by the caller is kept.
ProfileDictKeepSupplied(profile, rounded_goal) ==
    IF profile.daily_calorie_goal = {}
    THEN [profile EXCEPT !.daily_calorie_goal = rounded_goal]
    ELSE [profile EXCEPT !.daily_calorie_goal =
              CHOOSE v \in profile.daily_calorie_goal : TRUE]

\* profile_dict after line 201: the dumped model with the goal overwritten.
ProfileDict(profile, rounded_goal) ==
    [profile EXCEPT !.daily_calorie_goal = rounded_goal]

(***************************************************************************)
(* Input domains.                                                          *)
(***************************************************************************)
UserIds == {"u1", "u2"}
MealIds == {"m1", "m2"}
Dates == {"2024-01-01", "2024-01-1"}

\* adjust_portion requests, numbered in their order of arrival.
Procs == 1..MaxAdjusts

\* new_portion_size values a caller sends, in grams.
Portions == {0, 50, 150}

\* Request bodies of POST /api/meal/save (MealEntry): a 100 g portion with
\* nutrients in tenths (calories 200.0, protein 10.5, carbs 0.0, fats 3.0).
MealEntriesOf(ids, uids, dates) ==
    [meal_id : ids, user_id : uids, date : dates, portion_size : {100},
     calories : {2000}, protein : {105}, carbs : {0}, fats : {30}]

MealEntries == MealEntriesOf(MealIds, {"u1"}, {"2024-01-01"})

\* Meals of two users and of two spellings of one day.
DatedMealEntries ==
    MealEntriesOf({"m1"}, {"u1"}, {"2024-01-1"})
        \cup MealEntriesOf({"m2"}, {"u1"}, {"2024-01-01"})
        \cup MealEntriesOf({"m2"}, {"u2"}, {"2024-01-01"})

\* Request bodies of POST /api/user/profile (UserProfile).  The optional
\* daily_calorie_goal of the body is a set: {} is None, {v} is the value v.
ProfilesOf(ids, weights, heights, ages, genders, levels, goals, supplied) ==
    [user_id : ids, weight : weights, height : heights, age : ages,
     gender : genders, activity_level : levels, goal_weight : goals,
     daily_calorie_goal : supplied]

SmallProfiles ==
    ProfilesOf(UserIds, {70}, {175}, {30}, {"masculino"}, {"moderado"}, {65},
               {{}})

WideProfiles ==
    ProfilesOf(UserIds, {70}, {175}, {30},
               {"masculino", "Masculino", "feminino"},
               {"sedentario", "Leve", "MUITO_INTENSO", "corrida"},
               {65, 70, 80}, {{}, {1500}})

(***************************************************************************)
(* Responses.  last is the record of the call that completed most recently *)
(* among the single-step handlers: the handler, the input it received, the *)
(* HTTP status and the body it returned.  adj[p] is an adjust_portion      *)
(* request, which awaits the store twice (find_one, update_one).           *)
(***************************************************************************)
Response(op, req, status, body) ==
    [op |-> op, req |-> req, status |-> status, body |-> body]

IdleAdj ==
    [pc |-> "idle", meal_id |-> "", new_portion_size |-> 0, meal |-> NoneDoc,
     status |-> 0, body |-> NoneDoc]

Init ==
    /\ users = <<>>
    /\ meals = <<>>
    /\ adj = [p \in Procs |-> IdleAdj]
    /\ last = Response("none", NoneDoc, 0, NoneDoc)

(***************************************************************************)
(* POST /api/user/profile                                                  *)
(***************************************************************************)
create_or_update_profile(profile) ==
    \E rounded_goal \in DailyGoals(profile) :
        LET profile_dict == ProfileDict(profile, rounded_goal)
        IN  /\ users' = UpsertOne(users, [user_id |-> profile.user_id],
                                  profile_dict)
            /\ last' = Response("create_or_update_profile", profile, 200,
                                [daily_calorie_goal |->
                                     profile_dict.daily_calorie_goal])
            /\ UNCHANGED <<meals, adj>>

(***************************************************************************)
(* GET /api/user/profile/{user_id}                                         *)
(***************************************************************************)
get_profile(user_id) ==
    LET profile == FindOne(users, [user_id |-> user_id])
    IN  /\ last' = IF profile = NoneDoc
                   THEN Response("get_profile", user_id, 404, NoneDoc)
                   ELSE Response("get_profile", user_id, 200, profile)
        /\ UNCHANGED <<users, meals, adj>>

(***************************************************************************)
(* POST /api/meal/save                                                     *)
(***************************************************************************)
save_meal(meal) ==
    /\ Len(meals) < MaxMeals
    /\ meals' = InsertOne(meals, meal)
    /\ last' = Response("save_meal", meal, 200, [meal_id |-> meal.meal_id])
    /\ UNCHANGED <<users, adj>>

(***************************************************************************)
(* POST /api/meal/adjust                                                   *)
(***************************************************************************)
\* Faulty variant of ScaledValues: rounds to whole units, round(..., 0).
ScaledValuesWhole(x, new_portion_size, original_portion) ==
    { 10 * q : q \in RoundDiv(x * new_portion_size, 10 * original_portion) }

\* round(x * adjustment_factor, 1) for a nutrient x held in tenths.
ScaledValues(x, new_portion_size, original_portion) ==
    RoundDiv(x * new_portion_size, original_portion)

\* The possible values of updated_values (lines 288-298), original_portion # 0.
UpdatedValues(meal, new_portion_size) ==
    LET original_portion == meal.portion_size
    IN  [portion_size : {new_portion_size},
         calories : ScaledValues(meal.calories, new_portion_size, original_portion),
         protein : ScaledValues(meal.protein, new_portion_size, original_portion),
         carbs : ScaledValues(meal.carbs, new_portion_size, original_portion),
         fats : ScaledValues(meal.fats, new_portion_size, original_portion)]

\* What the handler does with the document find_one returned, up to the
\* point where it awaits update_one: 404 (line 285), the ZeroDivisionError of
\* line 289 caught by `except Exception` (500, line 309), or the computed
\* update.
AdjustOutcomes(meal, meal_id, new_portion_size) ==
    LET req == [IdleAdj EXCEPT !.meal_id = meal_id,
                               !.new_portion_size = new_portion_size,
                               !.meal = meal]
    IN  IF meal = NoneDoc
        THEN { [req EXCEPT !.pc = "done", !.status = 404] }
        ELSE IF meal.portion_size = 0
        THEN { [req EXCEPT !.pc = "done", !.status = 500] }
        ELSE { [req EXCEPT !.pc = "update", !.body = u] :
                   u \in UpdatedValues(meal, new_portion_size) }

\* Lines 283-298: find_one and the computation that follows it.
adjust_portion_find(p, meal_id, new_portion_size) ==
    /\ adj[p].pc = "idle"
    /\ \A q \in Procs : q < p => adj[q].pc # "idle"
    /\ \E r \in AdjustOutcomes(FindOne(meals, [meal_id |-> meal_id]),
                               meal_id, new_portion_size) :
           adj' = [adj EXCEPT ![p] = r]
    /\ UNCHANGED <<users, meals, last>>

\* Variant of AdjustWrite with an optimistic-concurrency check: the filter
\* also demands the portion_size the request read.
AdjustWriteChecked(coll, req) ==
    UpdateOne(coll, [meal_id |-> req.meal_id,
                     portion_size |-> req.meal.portion_size], req.body)

\* The store write of lines 300-303 for the request record req.
AdjustWrite(coll, req) ==
    UpdateOne(coll, [meal_id |-> req.meal_id], req.body)

\* Lines 300-305: update_one, then the updated values are returned.
adjust_portion_update(p) ==
    /\ adj[p].pc = "update"
    /\ meals' = AdjustWrite(meals, adj[p])
    /\ adj' = [adj EXCEPT ![p].pc = "done", ![p].status = 200]
    /\ UNCHANGED <<users, last>>

(***************************************************************************)
(* GET /api/meals/{user_id}/{date}                                         *)
(***************************************************************************)
\* Faulty variant of MealsQuery: the date is left out of the filter.
MealsQueryAnyDate(user_id, date) == [user_id |-> user_id]

\* The filter of lines 315-318.
MealsQuery(user_id, date) == [user_id |-> user_id, date |-> date]

MealsByDate(coll, user_id, date) ==
    LET found == Find(coll, MealsQuery(user_id, date))
        Col(f) == [i \in DOMAIN found |-> found[i][f]]
    IN  [meals |-> found,
         totals |-> [total_calories |-> SumSeq(Col("calories")),
                     total_protein |-> SumSeq(Col("protein")),
                     total_carbs |-> SumSeq(Col("carbs")),
                     total_fats |-> SumSeq(Col("fats")),
                     meals_count |-> Len(found)]]

get_meals_by_date(user_id, date) ==
    /\ last' = Response("get_meals_by_date",
                        [user_id |-> user_id, date |-> date], 200,
                        MealsByDate(meals, user_id, date))
    /\ UNCHANGED <<users, meals, adj>>

(***************************************************************************)
(* DELETE /api/meal/{meal_id}                                              *)
(***************************************************************************)
\* Faulty variant of DeleteStatus: success whatever was deleted.
DeleteStatusAlwaysOk(deleted_count) == 200

DeleteStatus(deleted_count) == IF deleted_count = 0 THEN 404 ELSE 200

delete_meal(meal_id) ==
    /\ meals' = DeleteOne(meals, [meal_id |-> meal_id])
    /\ last' = Response("delete_meal", meal_id,
                        DeleteStatus(DeletedCount(meals, [meal_id |-> meal_id])),
                        NoneDoc)
    /\ UNCHANGED <<users, adj>>

(***************************************************************************)
(* Food analysis.  The reply of the hosted model is what json.loads makes  *)
(* of its text: a JSON value tagged with its type, or "raise" when a step  *)
(* before line 161 raises (no API key, the model call, json.loads).        *)
(* Objects are functions from their keys to values; the elements of an     *)
(* array are objects with numeric nutrient fields.                         *)
(***************************************************************************)
JObject(d) == [t |-> "object", obj |-> d]
JArray(a) == [t |-> "array", arr |-> a]
JNumber(n) == [t |-> "number", num |-> n]
Raised(why) == [t |-> "raise", why |-> why]

\* dict.get(key, default)
Get(d, key, default) == IF key \in DOMAIN d THEN d[key] ELSE default

Arroz ==
    [food_name |-> "Arroz", portion_size |-> 100, calories |-> 100,
     protein |-> 2, carbs |-> 28, fats |-> 0, confidence |-> "alta"]
Feijao ==
    [food_name |-> "Feijao", portion_size |-> 80, calories |-> 150,
     protein |-> 9, carbs |-> 14, fats |-> 1, confidence |-> "baixa"]
Salada == [food_name |-> "Salada", calories |-> 20]

Items ==
    { Arroz, Feijao, Salada,
      [portion_size |-> 30, fats |-> 5],
      [food_name |-> "Ovo", calories |-> 70, protein |-> 6] }

Arrays == UNION { [1..n -> Items] : n \in 0..MaxItems }

Replies ==
    { JObject(d) : d \in Items } \cup { JArray(a) : a \in Arrays }
        \cup { JNumber(42), Raised("Expecting value: line 1 column 1 (char 0)") }

SmallReplies ==
    { JObject(Salada), JArray(<<>>), JArray(<<Arroz, Feijao>>), JNumber(42) }

\* ' + '.join(all_names), line 167-168.
RECURSIVE JoinNames(_)
JoinNames(items) ==
    IF Len(items) = 1 THEN Get(items[1], "food_name", "")
    ELSE Get(items[1], "food_name", "") \o " + " \o JoinNames(Tail(items))

\* Faulty variant of SumField: the first item's value is kept.
SumFieldFirst(items, field) == Get(items[1], field, 0)

\* sum(item.get(field, 0) for item in parsed_data), lines 170-174.
SumField(items, field) ==
    SumSeq([i \in DOMAIN items |-> Get(items[i], field, 0)])

Ok(food_data) == [ok |-> TRUE, food_data |-> food_data]
\* The HTTPException(500) of line 184.
AnalysisError(e) ==
    [ok |-> FALSE, status |-> 500, detail |-> "Erro ao analisar alimento: " \o e]

\* Lines 158-184.
analyze_food_with_ai(reply) ==
    IF reply.t = "raise" THEN AnalysisError(reply.why)
    ELSE IF reply.t = "array"
    THEN LET parsed_data == reply.arr
         IN  IF Len(parsed_data) > 0
             THEN IF Len(parsed_data) > 1
                  THEN Ok(JObject(SetFields(parsed_data[1],
                          [food_name |-> JoinNames(parsed_data),
                           portion_size |-> SumField(parsed_data, "portion_size"),
                           calories |-> SumField(parsed_data, "calories"),
                           protein |-> SumField(parsed_data, "protein"),
                           carbs |-> SumField(parsed_data, "carbs"),
                           fats |-> SumField(parsed_data, "fats")])))
                  ELSE Ok(JObject(parsed_data[1]))
             ELSE AnalysisError("Nenhum alimento identificado na resposta")
    ELSE Ok(reply)

\* A call of analyze_food_with_ai with the reply, recorded with its result.
NormalizeCall(reply) ==
    LET r == analyze_food_with_ai(reply)
    IN  /\ last' = Response("analyze_food_with_ai", reply,
                            IF r.ok THEN 0 ELSE r.status, r)
        /\ UNCHANGED <<users, meals, adj>>

(***************************************************************************)
(* POST /api/food/analyze                                                  *)
(***************************************************************************)
\* The response of the handler; meal_id is the value uuid4 yields.
AnalyzeResponse(coll, user_id, reply, meal_id) ==
    LET req == [user_id |-> user_id, reply |-> reply]
        r == analyze_food_with_ai(reply)
    IN  IF FindOne(coll, [user_id |-> user_id]) = NoneDoc
        THEN Response("analyze_food", req, 404,
                      [detail |-> "Usuário não encontrado"])
        ELSE IF ~r.ok
        THEN Response("analyze_food", req, r.status, [detail |-> r.detail])
        ELSE IF r.food_data.t # "object"
        THEN Response("analyze_food", req, 500,
                      [detail |-> "Erro ao processar imagem"])
        ELSE LET food_data == r.food_data.obj
             IN  Response("analyze_food", req, 200,
                     [meal_id |-> meal_id,
                      food_name |-> Get(food_data, "food_name",
                                        "Alimento não identificado"),
                      portion_size |-> Get(food_data, "portion_size", 100),
                      calories |-> Get(food_data, "calories", 0),
                      protein |-> Get(food_data, "protein", 0),
                      carbs |-> Get(food_data, "carbs", 0),
                      fats |-> Get(food_data, "fats", 0),
                      confidence |-> Get(food_data, "confidence", "média")])

\* Faulty variant of analyze_food: a successful analysis is also stored.
analyze_food_persisting(user_id, reply, meal_id) ==
    LET resp == AnalyzeResponse(users, user_id, reply, meal_id)
    IN  /\ last' = resp
        /\ meals' = IF resp.status = 200
                    THEN InsertOne(meals, resp.body)
                    ELSE meals
        /\ UNCHANGED <<users, adj>>

analyze_food(user_id, reply, meal_id) ==
    /\ last' = AnalyzeResponse(users, user_id, reply, meal_id)
    /\ UNCHANGED <<users, meals, adj>>

(***************************************************************************)
(* Specification of the meal handlers.                                     *)
(***************************************************************************)
SaveMeal == \E meal \in MealEntries : save_meal(meal)
AdjustFind ==
    \E p \in Procs, meal_id \in MealIds, n \in Portions :
        adjust_portion_find(p, meal_id, n)
AdjustUpdate == \E p \in Procs : adjust_portion_update(p)
DeleteMeal == \E meal_id \in MealIds : delete_meal(meal_id)

Next ==
    \/ SaveMeal
    \/ AdjustFind
    \/ AdjustUpdate
    \/ DeleteMeal

Spec == Init /\ [][Next]_vars

(***************************************************************************)
(* Properties of the meal handlers.                                        *)
(***************************************************************************)
NutrientFields == {"calories", "protein", "carbs", "fats"}
AdjustedFields == NutrientFields \cup {"portion_size"}

HasMeal(coll, meal_id) == \E i \in DOMAIN coll : coll[i].meal_id = meal_id

\* q is x * n / o rounded to the nearest unit (o # 0).
IsRounded(q, x, n, o) == 2 * Abs(x * n - q * o) <= Abs(o)

\* Request p takes its find_one step / its update_one step.
FindStep(p) == adj[p].pc = "idle" /\ adj'[p].pc # "idle"
UpdateStep(p) == adj[p].pc = "update" /\ adj'[p].pc = "done"

\* C2: adjust_portion on a stored meal with non-zero portion_size takes the
\* document stored at its find_one as base, and its update_one sets
\* portion_size to new_portion_size and each nutrient to the base value times
\* new_portion_size / base portion_size, rounded to one decimal place; the
\* same values are returned.
C2_AdjustScalesStored ==
    [][\A p \in Procs :
        /\ FindStep(p) /\ HasMeal(meals, adj'[p].meal_id) =>
              /\ adj'[p].meal = meals[FindIdx(meals, [meal_id |-> adj'[p].meal_id])]
              /\ adj'[p].meal.portion_size # 0 => adj'[p].pc = "update"
        /\ UpdateStep(p) /\ HasMeal(meals, adj[p].meal_id) =>
              LET i == FindIdx(meals, [meal_id |-> adj[p].meal_id])
                  base == adj[p].meal
                  n == adj[p].new_portion_size
              IN  /\ meals'[i].portion_size = n
                  /\ \A f \in NutrientFields :
                        IsRounded(meals'[i][f], base[f], n, base.portion_size)
                  /\ \A f \in AdjustedFields : adj'[p].body[f] = meals'[i][f]
                  /\ adj'[p].status = 200]_vars

\* A 200.0 kcal / 100 g meal was adjusted to 150 g giving 300.0 kcal, and a
\* later adjustment to 50 g started from 300.0 / 150 g and stored 100.0.
C2_Witness ==
    \E p, q \in Procs :
        /\ adj[p].pc = "done" /\ adj[p].status = 200
        /\ adj[p].meal.portion_size = 100 /\ adj[p].meal.calories = 2000
        /\ adj[p].new_portion_size = 150 /\ adj[p].body.calories = 3000
        /\ adj[q].pc = "done" /\ adj[q].status = 200
        /\ adj[q].meal_id = adj[p].meal_id
        /\ adj[q].meal.portion_size = 150 /\ adj[q].meal.calories = 3000
        /\ adj[q].meal.protein = 158
        /\ adj[q].new_portion_size = 50
        /\ \E i \in DOMAIN meals :
              /\ meals[i].meal_id = adj[q].meal_id
              /\ meals[i].portion_size = 50 /\ meals[i].calories = 1000
              /\ meals[i].protein = 53

\* HTTP statuses of a validation error.
ValidationStatuses == {400, 422}

\* C3: adjust_portion on a stored meal whose portion_size is zero ends in a
\* validation error.
C3_ZeroPortionIsValidationError ==
    \A p \in Procs :
        (adj[p].pc = "done" /\ adj[p].meal # NoneDoc /\ adj[p].meal.portion_size = 0)
            => adj[p].status \in ValidationStatuses

\* C4: the update_one of an adjustment is unconditional: whatever the stored
\* document holds by then, it succeeds and overwrites portion_size and the
\* four nutrients with the values computed from the document the request
\* read, leaving the other fields and the other documents alone.
C4_LastWriteWins ==
    [][\A p \in Procs :
        UpdateStep(p) /\ HasMeal(meals, adj[p].meal_id) =>
            LET i == FindIdx(meals, [meal_id |-> adj[p].meal_id])
            IN  /\ adj'[p].status = 200
                /\ adj[p].body \in UpdatedValues(adj[p].meal,
                                                 adj[p].new_portion_size)
                /\ Len(meals') = Len(meals)
                /\ \A j \in DOMAIN meals : j # i => meals'[j] = meals[j]
                /\ \A f \in DOMAIN meals[i] :
                      meals'[i][f] = IF f \in AdjustedFields
                                     THEN adj[p].body[f] ELSE meals[i][f]]_vars

\* Two adjustments of one meal both read the 100 g document, both returned
\* success, and the store holds the values of one of them, computed from the
\* 100 g document; the other one's values are gone.
C4_Witness ==
    \E w, l \in Procs :
        /\ w # l
        /\ adj[w].pc = "done" /\ adj[w].status = 200
        /\ adj[l].pc = "done" /\ adj[l].status = 200
        /\ adj[w].meal_id = adj[l].meal_id
        /\ adj[w].meal = adj[l].meal
        /\ adj[w].meal.portion_size = 100
        /\ adj[l].new_portion_size = 0 /\ adj[w].new_portion_size = 50
        /\ Len(meals) = 1
        /\ meals[1].meal_id = adj[w].meal_id
        /\ \A f \in AdjustedFields : meals[1][f] = adj[w].body[f]
        /\ meals[1].calories = 1000

\* C5: no two stored meals share a meal_id.
C5_UniqueMealIds ==
    \A i, j \in DOMAIN meals : meals[i].meal_id = meals[j].meal_id => i = j

\* A delete_meal call completes in this step.
DeleteStep == last'.op = "delete_meal" /\ adj' = adj

\* C6: delete_meal and adjust_portion with a meal_id that matches no stored
\* meal end in 404 and leave both collections unchanged.
C6_UnknownMealNotFound ==
    [][/\ DeleteStep /\ ~HasMeal(meals, last'.req) =>
            /\ last'.status = 404
            /\ meals' = meals /\ users' = users
       /\ \A p \in Procs :
            FindStep(p) /\ ~HasMeal(meals, adj'[p].meal_id) =>
                /\ adj'[p].pc = "done" /\ adj'[p].status = 404
                /\ meals' = meals /\ users' = users]_vars

\* Both handlers have answered 404 for a meal_id that is not stored.
C6_Witness ==
    /\ last.op = "delete_meal" /\ last.status = 404
    /\ ~HasMeal(meals, last.req)
    /\ \E p \in Procs :
          /\ adj[p].pc = "done" /\ adj[p].status = 404
          /\ adj[p].meal_id = last.req

\* C10: when adjust_portion returns success, the store holds, right after
\* its write, a meal with that meal_id and the returned values.
C10_SuccessMeansStored ==
    [][\A p \in Procs :
        (UpdateStep(p) /\ adj'[p].status = 200) =>
            \E i \in DOMAIN meals' :
                /\ meals'[i].meal_id = adj[p].meal_id
                /\ \A f \in AdjustedFields : meals'[i][f] = adj'[p].body[f]]_vars

(***************************************************************************)
(* Specification of the profile handlers, over a wide range of bodies.     *)
(***************************************************************************)
CreateOrUpdateProfile ==
    \E profile \in WideProfiles : create_or_update_profile(profile)
GetProfile == \E user_id \in UserIds : get_profile(user_id)

NextProfile ==
    \/ CreateOrUpdateProfile
    \/ GetProfile

SpecProfile == Init /\ [][NextProfile]_vars

\* C1: every stored profile's daily_calorie_goal is the rounded goal computed
\* (BMR -> TDEE -> goal) from the stored record's own weight, height, age,
\* gender, activity_level and goal_weight; it is the value the handler
\* returned, never the one the request body supplied.
C1_GoalRecomputed ==
    /\ \A i \in DOMAIN users : users[i].daily_calorie_goal \in DailyGoals(users[i])
    /\ \A i, j \in DOMAIN users : users[i].user_id = users[j].user_id => i = j
    /\ last.op = "create_or_update_profile" =>
          LET stored == FindOne(users, [user_id |-> last.req.user_id])
          IN  /\ stored # NoneDoc
              /\ stored.daily_calorie_goal = last.body.daily_calorie_goal
              /\ stored.daily_calorie_goal \notin last.req.daily_calorie_goal
              /\ \A f \in DOMAIN last.req :
                    f # "daily_calorie_goal" => stored[f] = last.req[f]

\* A profile written twice: the last body supplied 1500 as its goal and other
\* attributes than the first body had, and the store holds the goal computed
\* from the new attributes.
C1_Witness ==
    /\ last.op = "create_or_update_profile"
    /\ last.req.daily_calorie_goal = {1500}
    /\ last.req.gender = "Masculino" /\ last.req.activity_level = "MUITO_INTENSO"
    /\ last.req.goal_weight > last.req.weight
    /\ Len(users) = 2
    /\ users[1].user_id = last.req.user_id
    /\ users[1].daily_calorie_goal # 1500
    /\ users[1].daily_calorie_goal \in DailyGoals(last.req)

(***************************************************************************)
(* Specification of the daily query, over meals of several users and dates.*)
(***************************************************************************)
SaveDatedMeal == \E meal \in DatedMealEntries : save_meal(meal)
GetMealsByDate ==
    \E user_id \in UserIds, date \in Dates : get_meals_by_date(user_id, date)

AdjustFirst ==
    \E meal_id \in MealIds, n \in {150} : adjust_portion_find(1, meal_id, n)

NextQuery ==
    \/ SaveDatedMeal
    \/ AdjustFirst
    \/ AdjustUpdate
    \/ DeleteMeal
    \/ GetMealsByDate

SpecQuery == Init /\ [][NextQuery]_vars

\* The sum of the function f over the finite set S.
RECURSIVE SumOver(_, _)
SumOver(S, f) ==
    IF S = {} THEN 0
    ELSE LET x == CHOOSE y \in S : TRUE IN f[x] + SumOver(S \ {x}, f)

\* A get_meals_by_date call completes in this step.
QueryStep == last'.op = "get_meals_by_date" /\ adj' = adj

\* C8: get_meals_by_date(user_id, date) returns exactly the stored meals whose
\* user_id and date both equal the arguments, in stored order, with totals
\* equal to the sums of their nutrient fields and meals_count their number.
C8_QueryExact ==
    [][QueryStep =>
        LET q == last'.req
            r == last'.body
            hits == { i \in DOMAIN meals :
                        meals[i].user_id = q.user_id /\ meals[i].date = q.date }
            Field(f) == SumOver(hits, [i \in hits |-> meals[i][f]])
        IN  /\ last'.status = 200
            /\ Len(r.meals) = Cardinality(hits)
            /\ \A i \in hits :
                  r.meals[Cardinality({ j \in hits : j <= i })] = meals[i]
            /\ r.totals.total_calories = Field("calories")
            /\ r.totals.total_protein = Field("protein")
            /\ r.totals.total_carbs = Field("carbs")
            /\ r.totals.total_fats = Field("fats")
            /\ r.totals.meals_count = Cardinality(hits)
            /\ meals' = meals]_vars

\* Two meals of one user are stored, on "2024-01-01" and on "2024-01-1"; one
\* was adjusted to 150 g.  The query for the first date returned that meal
\* alone, with its 300.0 kcal as the total.
C8_Witness ==
    /\ last.op = "get_meals_by_date" /\ last.status = 200
    /\ last.req.date = "2024-01-01"
    /\ Len(meals) = 2
    /\ meals[1].user_id = last.req.user_id /\ meals[2].user_id = last.req.user_id
    /\ meals[1].date = "2024-01-1" /\ meals[2].date = "2024-01-01"
    /\ meals[2].calories = 3000
    /\ last.body.meals = <<meals[2]>>
    /\ last.body.totals.total_calories = 3000
    /\ last.body.totals.meals_count = 1

(***************************************************************************)
(* Specification of the food analysis beside profile and meal writes.      *)
(***************************************************************************)
SmallProfile == \E profile \in SmallProfiles : create_or_update_profile(profile)
AnalyzeFood ==
    \E user_id \in UserIds, reply \in SmallReplies, meal_id \in MealIds :
        analyze_food(user_id, reply, meal_id)

NextAnalyze ==
    \/ SmallProfile
    \/ AnalyzeFood
    \/ SaveMeal
    \/ DeleteMeal

SpecAnalyze == Init /\ [][NextAnalyze]_vars

\* An analyze_food call completes in this step.
AnalyzeStep == last'.op = "analyze_food" /\ adj' = adj

\* C7: analyze_food leaves the profiles and the meals unchanged in every
\* outcome, and a meal_id comes to be stored only by a save_meal call for it.
C7_AnalyzeStoresNothing ==
    [][/\ AnalyzeStep =>
            /\ users' = users /\ meals' = meals
            /\ last'.status \in {200, 404, 500}
            /\ last'.status = 404 <=> ~(\E i \in DOMAIN users :
                                          users[i].user_id = last'.req.user_id)
       /\ \A id \in MealIds :
            (HasMeal(meals', id) /\ ~HasMeal(meals, id)) =>
                (last'.op = "save_meal" /\ last'.req.meal_id = id)]_vars

\* A successful analysis returned a meal_id while no meal with that id is
\* stored.
C7_Witness ==
    /\ last.op = "analyze_food" /\ last.status = 200
    /\ last.body.calories = 250
    /\ ~HasMeal(meals, last.body.meal_id)
    /\ Len(meals) = 1

(***************************************************************************)
(* Specification of the response normalizer, over the replies.             *)
(***************************************************************************)
NextNorm == \E reply \in Replies : NormalizeCall(reply)

SpecNorm == Init /\ [][NextNorm]_vars

\* The names of a non-empty list of items joined with " + ".
RECURSIVE JoinedFromRight(_)
JoinedFromRight(a) ==
    LET n == Len(a)
        name == IF "food_name" \in DOMAIN a[n] THEN a[n].food_name ELSE ""
    IN  IF n = 1 THEN name
        ELSE JoinedFromRight(SubSeq(a, 1, n - 1)) \o " + " \o name

SummedFields == {"portion_size", "calories", "protein", "carbs", "fats"}

====
